---- MODULE Spec2Model ----
(***************************************************************************)
(* Model of pykafka/cluster.py: the Cluster object, its broker and topic   *)
(* maps, the metadata refresh update() and the coordinator discovery       *)
(* get_offset_manager().                                                    *)
(*                                                                         *)
(* Two callers share one Cluster without locking (the class has no lock):  *)
(* one runs update(), the other runs get_offset_manager().  update() is    *)
(* three steps, one per method it calls (_get_metadata, _update_brokers,   *)
(* _update_topics); the other caller's steps may fall between them.        *)
(* Text (seed host list, topic names) is a sequence of one-character       *)
(* strings, so that split() and startswith() are computed, not assumed.    *)
(***************************************************************************)
EXTENDS Integers, Sequences, FiniteSets, TLC

\* ------------------------------------------------------------------ bounds
MaxUpdates == 3        \* update() calls in one run, the constructor's included
MaxGomCalls == 1       \* get_offset_manager() calls in one run
MaxReads == 1          \* looks a reader takes at the two maps in one run

\* --------------------------------------------------------- sample universes
BrokerIds == {1, 2}
\* the ids a coordinator response can carry: 99 is one no snapshot reports
CoordinatorIds == BrokerIds \cup {99}
TopicNames == { <<"_", "o">>, <<"_", "_", "c">> }
SeedLists == { <<"a", ":", "1", ",", "b", ":", "2">>, <<"a", "1">> }

\* ------------------------------------------------------------ text helpers
RECURSIVE Split(_, _)
\* str.split(sep) for a one-character separator: the pieces between the
\* separators, empty pieces kept, always at least one piece.
Split(s, sep) ==
  IF \A i \in 1..Len(s) : s[i] # sep
    THEN << s >>
    ELSE LET i == CHOOSE k \in 1..Len(s) :
                    s[k] = sep /\ \A j \in 1..(k - 1) : s[j] # sep
         IN  << SubSeq(s, 1, i - 1) >> \o Split(SubSeq(s, i + 1, Len(s)), sep)

\* str.startswith(prefix)
StartsWith(s, prefix) ==
  /\ Len(s) >= Len(prefix)
  /\ SubSeq(s, 1, Len(prefix)) = prefix

ReservedPrefix == << "_", "_" >>

\* ------------------------------------------------------------- map helpers
EmptyMap == << >>
Keys(m) == DOMAIN m
Pop(m, k) == [ x \in (DOMAIN m) \ {k} |-> m[x] ]
Put(m, k, v) == [ x \in (DOMAIN m) \cup {k} |-> IF x = k THEN v ELSE m[x] ]
\* every order in which a dict or a set can be iterated
Orders(S) ==
  { s \in [ 1..Cardinality(S) -> S ] :
      \A i, j \in 1..Cardinality(S) : i # j => s[i] # s[j] }

\* --------------------------------------------------------------- snapshots
\* the broker records a snapshot can carry: broker 1 at three addresses (a
\* change of host, a change of port), broker 2 at one
BrokerMetadata ==
  { [ id |-> 1, host |-> "h1", port |-> 9092 ],
    [ id |-> 1, host |-> "h2", port |-> 9092 ],
    [ id |-> 1, host |-> "h1", port |-> 9093 ],
    [ id |-> 2, host |-> "h2", port |-> 9092 ] }
TopicMetadata == [ name : TopicNames ]
BrokerSnapshots ==
  UNION { { f \in [ S -> BrokerMetadata ] : \A i \in S : f[i].id = i } :
          S \in SUBSET BrokerIds }
TopicSnapshots ==
  UNION { { f \in [ S -> TopicMetadata ] : \A n \in S : f[n].name = n } :
          S \in SUBSET TopicNames }
\* what request_metadata() can answer
MetadataResponses == [ brokers : BrokerSnapshots, topics : TopicSnapshots ]
NoMetadata == [ brokers |-> EmptyMap, topics |-> EmptyMap ]
\* the answers used while get_offset_manager() runs beside update(): brokers
\* come and go, each at one address, and one topic comes and goes
GomResponses ==
  { r \in MetadataResponses :
      /\ Keys(r.topics) \subseteq { << "_", "o" >> }
      /\ \A i \in Keys(r.brokers) : r.brokers[i].port = 9092
      /\ \A i \in Keys(r.brokers) : r.brokers[i].host = (IF i = 1 THEN "h1" ELSE "h2") }

\* the answers used while a reader looks on: brokers come and go, broker 1
\* at either host, and one topic comes and goes
ReadResponses ==
  { r \in MetadataResponses :
      /\ \A i \in Keys(r.brokers) : r.brokers[i].port = 9092
      /\ Keys(r.topics) \subseteq { << "_", "o" >> } }

\* the outcome of one request_metadata() call: an exception or a snapshot
NoAnswer == [ ok |-> FALSE, snapshot |-> NoMetadata ]
Answers(Responses) ==
  {NoAnswer} \cup { [ ok |-> TRUE, snapshot |-> r ] : r \in Responses }
\* the outcomes of the requests of one _get_metadata call, one per candidate:
\* the first candidate answers anything or fails, the later ones (which the
\* loop never reaches) are down
AnswerLists(n, Responses) ==
  { [ i \in 1..n |-> IF i = 1 THEN a ELSE NoAnswer ] : a \in Answers(Responses) }

\* the outcome of one coordinator query: an exception (id 0) or a response
\* carrying a coordinator id
QueryFailed == [ ok |-> FALSE, coordinator_id |-> 0 ]
QueryAnswers ==
  {QueryFailed} \cup { [ ok |-> TRUE, coordinator_id |-> c ] : c \in CoordinatorIds }

VARIABLES
  cstate,                  \* "constructing", "ready" or "failed" (__init__)
  seed_hosts,              \* self._seed_hosts
  exclude_internal_topics, \* self._exclude_internal_topics
  brokers,                 \* self._brokers : id -> Broker handle
  topics,                  \* self._topics  : name -> Topic handle
  upc,                     \* where update() stands: "idle", "brokers", "topics"
  metadata,                \* update()'s local: the snapshot it fetched last
  calls,                   \* update() calls made so far
  uresult,                 \* how the last update() call ended
  repeat,                  \* this call fetched what the previous, successful call fetched
  mdRequests,              \* metadata requests issued by the current update() call
  mdTarget,                \* the handle the last metadata request went to
  log,                     \* what the current update() call logged at info level
  topicUpdates,            \* name -> update(meta) calls received in the current update()
  gpc,                     \* where get_offset_manager() stands: "idle", "picked", "loop"
  gkey,                    \* the key random.choice() returned
  broker,                  \* get_offset_manager()'s local: the query target
  backoff,                 \* get_offset_manager()'s local
  retries,                 \* get_offset_manager()'s local
  gcalls,                  \* get_offset_manager() calls made so far
  gresult,                 \* how the last get_offset_manager() call ended
  coordinator,             \* the handle the last call returned
  res,                     \* the outcome of the last coordinator query
  sent,                    \* the broker ids the queries of the current call went to
  sleeps,                  \* the durations the current call slept, in order
  reads,                   \* looks a reader has taken at cluster.brokers / .topics
  seen                     \* what the reader's last look found in the two maps

uvars == << cstate, seed_hosts, exclude_internal_topics, brokers, topics, upc,
            metadata, calls, uresult, repeat, mdRequests, mdTarget, log,
            topicUpdates >>
gvars == << gpc, gkey, broker, backoff, retries, gcalls, gresult, coordinator,
            res, sent, sleeps >>
rvars == << reads, seen >>
vars == << uvars, gvars, rvars >>

NoTarget == [ id |-> 0, host |-> "", port |-> 0 ]

\* the info log of one update() call: 'Removing broker', 'Discovered broker',
\* 'Removing topic', 'Discovered topic', each as the set of keys it named
EmptyLog == [ removedBrokers |-> {}, discoveredBrokers |-> {},
              removedTopics |-> {}, discoveredTopics |-> {} ]

\* ------------------------------------------------------------ construction
\* Broker(-1, h, p, ...): the temporary handle of a seed entry
SeedBroker(h, p) == [ id |-> -1, host |-> h, port |-> p ]

\* Broker.from_metadata(meta, ...): a new handle
BrokerFromMetadata(meta) ==
  [ id |-> meta.id, host |-> meta.host, port |-> meta.port ]

\* Topic(cluster, meta): a new handle
NewTopic(meta) == [ name |-> meta.name ]

\* ------------------------------------------------------------ _get_metadata
\* _get_metadata going to the seed list whatever the map holds
CandidatesSeedsOnly ==
  { LET parts == Split(seed_hosts, ",")
    IN  [ i \in 1..Len(parts) |->
            [ seed |-> TRUE, text |-> parts[i], handle |-> NoTarget ] ] }

\* The candidates of one _get_metadata call, in one of the orders the
\* iteration can take: the map's handles, or the pieces of the seed list.
Candidates ==
  IF Keys(brokers) # {}
    THEN { [ i \in 1..Len(o) |->
               [ seed |-> FALSE, text |-> << >>, handle |-> brokers[o[i]] ] ] :
           o \in Orders(Keys(brokers)) }
    ELSE { LET parts == Split(seed_hosts, ",")
           IN  [ i \in 1..Len(parts) |->
                   [ seed |-> TRUE, text |-> parts[i], handle |-> NoTarget ] ] }

\* _get_metadata with the loop going on to the next candidate after a failure
TryCandidatesFallThrough(cands, answers) ==
  LET asked == { i \in 1..Len(cands) : \A j \in 1..(i - 1) : ~answers[j].ok }
      good == { i \in asked : answers[i].ok }
  IN  IF good # {}
        THEN LET i == CHOOSE k \in good : TRUE
             IN  [ result |-> "ok", requests |-> Cardinality(asked),
                   target |-> NoTarget, snapshot |-> answers[i].snapshot ]
        ELSE [ result |-> "ClusterUnreachable", requests |-> Cardinality(asked),
               target |-> NoTarget, snapshot |-> NoMetadata ]

\* The loop of _get_metadata over cands.  answers[i] is the outcome of a
\* request to candidate i.  The first candidate decides: its answer is
\* returned, its failure is raised again.
TryCandidates(cands, answers) ==
  IF Len(cands) = 0
    THEN [ result |-> "ClusterUnreachable", requests |-> 0,
           target |-> NoTarget, snapshot |-> NoMetadata ]
    ELSE LET c == cands[1]
             hp == Split(c.text, ":")
         IN  IF c.seed /\ Len(hp) # 2
               THEN [ result |-> "ValueError", requests |-> 0,
                      target |-> NoTarget, snapshot |-> NoMetadata ]
               ELSE LET b == IF c.seed THEN SeedBroker(hp[1], hp[2])
                                       ELSE c.handle
                    IN  IF answers[1].ok
                          THEN [ result |-> "ok", requests |-> 1,
                                 target |-> b, snapshot |-> answers[1].snapshot ]
                          ELSE [ result |-> "ClusterUnreachable", requests |-> 1,
                                 target |-> b, snapshot |-> NoMetadata ]

\* ---------------------------------------------------------- _update_brokers
\* the first loop forgetting to evict
RemovedNothing(map, fresh) == {}

\* the first loop of _update_brokers and of _update_topics: pop every key
\* the snapshot lacks
Removed(map, fresh) == Keys(map) \ Keys(fresh)

RECURSIVE PopAll(_, _)
PopAll(map, removed) ==
  IF removed = {}
    THEN map
    ELSE LET k == CHOOSE x \in removed : TRUE
         IN  PopAll(Pop(map, k), removed \ {k})

RECURSIVE AddBrokersInPlace(_, _, _, _, _)
\* the second loop of _update_brokers taking a changed address over instead
\* of raising
AddBrokersInPlace(map, found, fresh, order, i) ==
  IF i > Len(order)
    THEN [ map |-> map, discovered |-> found, raised |-> FALSE ]
    ELSE LET id_ == order[i]
         IN  AddBrokersInPlace(Put(map, id_, BrokerFromMetadata(fresh[id_])),
                               IF id_ \in Keys(map) THEN found ELSE found \cup {id_},
                               fresh, order, i + 1)

RECURSIVE AddBrokersSkippingChange(_, _, _, _, _)
\* the second loop of _update_brokers passing over an id whose host or port
\* changed: the handle stays and nothing is raised
AddBrokersSkippingChange(map, found, fresh, order, i) ==
  IF i > Len(order)
    THEN [ map |-> map, discovered |-> found, raised |-> FALSE ]
    ELSE LET id_ == order[i]
         IN  IF id_ \notin Keys(map)
               THEN AddBrokersSkippingChange(
                      Put(map, id_, BrokerFromMetadata(fresh[id_])),
                      found \cup {id_}, fresh, order, i + 1)
               ELSE AddBrokersSkippingChange(map, found, fresh, order, i + 1)

RECURSIVE AddBrokers(_, _, _, _, _)
\* the second loop of _update_brokers, from position i of the iteration
\* order; found collects the ids logged as discovered
AddBrokers(map, found, fresh, order, i) ==
  IF i > Len(order)
    THEN [ map |-> map, discovered |-> found, raised |-> FALSE ]
    ELSE LET id_ == order[i]
             meta == fresh[id_]
         IN  IF id_ \notin Keys(map)
               THEN AddBrokers(Put(map, id_, BrokerFromMetadata(meta)),
                               found \cup {id_}, fresh, order, i + 1)
               ELSE IF meta.host = map[id_].host /\ meta.port = map[id_].port
                      THEN AddBrokers(map, found, fresh, order, i + 1)
                      ELSE [ map |-> map, discovered |-> found, raised |-> TRUE ]

\* _update_brokers putting the map back as it was before it raises
UpdateBrokersResultRollback(map, fresh, order) ==
  LET r == AddBrokers(PopAll(map, Removed(map, fresh)), {}, fresh, order, 1)
  IN  IF r.raised
        THEN [ map |-> map, discovered |-> {}, raised |-> TRUE ]
        ELSE r

\* _update_brokers as a whole: the removal loop, then the add/update loop
UpdateBrokersResult(map, fresh, order) ==
  AddBrokers(PopAll(map, Removed(map, fresh)), {}, fresh, order, 1)

\* ----------------------------------------------------------- _update_topics
\* the prefix test looking at one underscore only
ShouldExcludeTopicOneUnderscore(flag, topic_name) ==
  IF ~flag THEN FALSE ELSE StartsWith(topic_name, << "_" >>)

\* the flag read the wrong way round
ShouldExcludeTopicInverted(flag, topic_name) ==
  IF flag THEN FALSE ELSE StartsWith(topic_name, ReservedPrefix)

ShouldExcludeTopic(flag, topic_name) ==
  IF ~flag THEN FALSE ELSE StartsWith(topic_name, ReservedPrefix)

RECURSIVE AddTopicsRebuilding(_, _, _, _, _, _, _)
\* the second loop of _update_topics building a new handle for a known name
AddTopicsRebuilding(map, found, upd, fresh, order, i, flag) ==
  IF i > Len(order)
    THEN [ map |-> map, discovered |-> found, updates |-> upd ]
    ELSE LET name == order[i]
         IN  IF ~ShouldExcludeTopic(flag, name)
               THEN AddTopicsRebuilding(Put(map, name, NewTopic(fresh[name])),
                                        found \cup {name}, upd,
                                        fresh, order, i + 1, flag)
               ELSE AddTopicsRebuilding(map, found, upd, fresh, order, i + 1, flag)

RECURSIVE AddTopics(_, _, _, _, _, _, _)
\* the second loop of _update_topics; found collects the names logged as
\* discovered, upd counts the update(meta) calls the handles received
AddTopics(map, found, upd, fresh, order, i, flag) ==
  IF i > Len(order)
    THEN [ map |-> map, discovered |-> found, updates |-> upd ]
    ELSE LET name == order[i]
             meta == fresh[name]
         IN  IF ~ShouldExcludeTopic(flag, name)
               THEN IF name \notin Keys(map)
                      THEN AddTopics(Put(map, name, NewTopic(meta)),
                                     found \cup {name}, upd,
                                     fresh, order, i + 1, flag)
                      ELSE AddTopics(map, found,
                                     [ upd EXCEPT ![name] = @ + 1 ],
                                     fresh, order, i + 1, flag)
               ELSE AddTopics(map, found, upd, fresh, order, i + 1, flag)

UpdateTopicsResult(map, fresh, order, flag) ==
  AddTopics(PopAll(map, Removed(map, fresh)), {},
            [ n \in TopicNames |-> 0 ], fresh, order, 1, flag)

\* ------------------------------------------------------------------ update
\* how an update() call that ends leaves the object: the constructor's call
\* decides whether there is a Cluster at all
AfterReturn == "ready"
\* __init__ swallowing the failure of its update()
AfterRaiseSwallowed == "ready"
AfterRaise == IF cstate = "constructing" THEN "failed" ELSE cstate

\* update(), line 160: metadata = self._get_metadata(), answered from the
\* set Responses
GetMetadata(Responses) ==
  /\ upc = "idle"
  /\ cstate \in {"constructing", "ready"}
  /\ calls < MaxUpdates
  /\ \E cands \in Candidates :
       \E answers \in AnswerLists(Len(cands), Responses) :
         LET r == TryCandidates(cands, answers)
         IN  /\ calls' = calls + 1
             /\ mdRequests' = r.requests
             /\ mdTarget' = r.target
             /\ log' = EmptyLog
             /\ topicUpdates' = [ n \in TopicNames |-> 0 ]
             /\ IF r.result = "ok"
                  THEN /\ metadata' = r.snapshot
                       /\ repeat' = (uresult = "ok" /\ metadata = r.snapshot)
                       /\ upc' = "brokers"
                       /\ uresult' = "running"
                       /\ cstate' = cstate
                  ELSE /\ metadata' = metadata
                       /\ repeat' = FALSE
                       /\ upc' = "idle"
                       /\ uresult' = r.result
                       /\ cstate' = AfterRaise
  /\ UNCHANGED << seed_hosts, exclude_internal_topics, brokers, topics >>
  /\ UNCHANGED gvars
  /\ UNCHANGED rvars

\* update() with its two reconciliations in the other order: the topics are
\* reconciled before the brokers
UpdateBrokersTopicsFirst ==
  /\ upc = "brokers"
  /\ \E order \in Orders(Keys(metadata.brokers)),
        torder \in Orders(Keys(metadata.topics)) :
       LET r == UpdateBrokersResult(brokers, metadata.brokers, order)
           t == UpdateTopicsResult(topics, metadata.topics, torder,
                                   exclude_internal_topics)
       IN  /\ brokers' = r.map
           /\ topics' = t.map
           /\ topicUpdates' = t.updates
           /\ log' = [ removedBrokers |-> Removed(brokers, metadata.brokers),
                       discoveredBrokers |-> r.discovered,
                       removedTopics |-> Removed(topics, metadata.topics),
                       discoveredTopics |-> t.discovered ]
           /\ IF r.raised
                THEN /\ upc' = "idle"
                     /\ uresult' = "TopologyChangeRejected"
                     /\ cstate' = AfterRaise
                ELSE /\ upc' = "topics"
                     /\ uresult' = uresult
                     /\ cstate' = cstate
  /\ UNCHANGED << seed_hosts, exclude_internal_topics, metadata, calls,
                  repeat, mdRequests, mdTarget >>
  /\ UNCHANGED gvars
  /\ UNCHANGED rvars

\* update() with lines 161 and 162 swapped: the first step reconciles the
\* topics and leaves the brokers for later
UpdateBrokersAfterTopics ==
  /\ upc = "brokers"
  /\ \E order \in Orders(Keys(metadata.topics)) :
       LET t == UpdateTopicsResult(topics, metadata.topics, order,
                                   exclude_internal_topics)
       IN  /\ topics' = t.map
           /\ topicUpdates' = t.updates
           /\ log' = [ log EXCEPT
                         !.removedTopics = Removed(topics, metadata.topics),
                         !.discoveredTopics = t.discovered ]
  /\ upc' = "topics"
  /\ UNCHANGED << cstate, seed_hosts, exclude_internal_topics, brokers,
                  metadata, calls, uresult, repeat, mdRequests, mdTarget >>
  /\ UNCHANGED gvars
  /\ UNCHANGED rvars

\* update(), line 161: self._update_brokers(metadata.brokers)
UpdateBrokers ==
  /\ upc = "brokers"
  /\ \E order \in Orders(Keys(metadata.brokers)) :
       LET r == UpdateBrokersResult(brokers, metadata.brokers, order)
       IN  /\ brokers' = r.map
           /\ log' = [ log EXCEPT
                         !.removedBrokers = Removed(brokers, metadata.brokers),
                         !.discoveredBrokers = r.discovered ]
           /\ IF r.raised
                THEN /\ upc' = "idle"
                     /\ uresult' = "TopologyChangeRejected"
                     /\ cstate' = AfterRaise
                ELSE /\ upc' = "topics"
                     /\ uresult' = uresult
                     /\ cstate' = cstate
  /\ UNCHANGED << seed_hosts, exclude_internal_topics, topics, metadata, calls,
                  repeat, mdRequests, mdTarget, topicUpdates >>
  /\ UNCHANGED gvars
  /\ UNCHANGED rvars

\* update(), line 162: self._update_topics(metadata.topics), then return
UpdateTopics ==
  /\ upc = "topics"
  /\ \E order \in Orders(Keys(metadata.topics)) :
       LET r == UpdateTopicsResult(topics, metadata.topics, order,
                                   exclude_internal_topics)
       IN  /\ topics' = r.map
           /\ log' = [ log EXCEPT
                         !.removedTopics = Removed(topics, metadata.topics),
                         !.discoveredTopics = r.discovered ]
           /\ topicUpdates' = r.updates
  /\ upc' = "idle"
  /\ uresult' = "ok"
  /\ cstate' = AfterReturn
  /\ UNCHANGED << seed_hosts, exclude_internal_topics, brokers, metadata, calls,
                  repeat, mdRequests, mdTarget >>
  /\ UNCHANGED gvars
  /\ UNCHANGED rvars

\* ------------------------------------------------------ get_offset_manager
MAX_RETRIES == 3
InitialBackoff == 2

RECURSIVE Pow(_, _)
\* b ** e
Pow(b, e) == IF e = 0 THEN 1 ELSE b * Pow(b, e - 1)

\* the retry test off by one
MayRetryOffByOne(n) == n <= MAX_RETRIES

\* line 147: another attempt follows the n-th failure
MayRetry(n) == n < MAX_RETRIES

\* the except branch sleeping before it looks at the retry count
OnFailureSleepFirst(st, n, asked) ==
  [ pc |-> IF MayRetry(n) THEN "loop" ELSE "idle",
    result |-> IF MayRetry(n) THEN "running" ELSE "CoordinatorDiscoveryFailed",
    retries |-> n, backoff |-> Pow(st.backoff, 2), sent |-> asked,
    sleeps |-> Append(st.sleeps, st.backoff),
    coordinator |-> st.coordinator ]

\* the except branch leaving backoff as it was
OnFailureNoGrowth(st, n, asked) ==
  IF MayRetry(n)
    THEN [ pc |-> "loop", result |-> "running", retries |-> n,
           backoff |-> st.backoff, sent |-> asked,
           sleeps |-> Append(st.sleeps, st.backoff),
           coordinator |-> st.coordinator ]
    ELSE [ pc |-> "idle", result |-> "CoordinatorDiscoveryFailed",
           retries |-> n, backoff |-> st.backoff, sent |-> asked,
           sleeps |-> st.sleeps,
           coordinator |-> st.coordinator ]

\* lines 145-151, the except branch: the n-th request failed.  st holds the
\* locals and what the call did so far, asked the brokers queried so far.
OnFailure(st, n, asked) ==
  IF MayRetry(n)
    THEN [ pc |-> "loop", result |-> "running", retries |-> n,
           backoff |-> Pow(st.backoff, 2), sent |-> asked,
           sleeps |-> Append(st.sleeps, st.backoff),
           coordinator |-> st.coordinator ]
    ELSE [ pc |-> "idle", result |-> "CoordinatorDiscoveryFailed",
           retries |-> n, backoff |-> st.backoff, sent |-> asked,
           sleeps |-> st.sleeps,
           coordinator |-> st.coordinator ]

\* the else branch returning the broker that was queried
OnSuccessReturnsTarget(st, n, asked, target, id, map) ==
  [ pc |-> "idle",
    result |-> IF id \notin Keys(map) THEN "CoordinatorUnknown" ELSE "returned",
    retries |-> n, backoff |-> st.backoff, sent |-> asked, sleeps |-> st.sleeps,
    coordinator |-> IF id \notin Keys(map) THEN st.coordinator ELSE target ]

\* the lookup moved into the try block, where its exception is caught and
\* handled as a failed request
OnSuccessCaught(st, n, asked, target, id, map) ==
  IF id \notin Keys(map)
    THEN OnFailure(st, n, asked)
    ELSE [ pc |-> "idle", result |-> "returned",
           retries |-> n, backoff |-> st.backoff, sent |-> asked,
           sleeps |-> st.sleeps, coordinator |-> map[id] ]

\* lines 152-156, the else branch: the n-th request was answered with id;
\* map is self._brokers at the moment of the lookup
OnSuccess(st, n, asked, target, id, map) ==
  IF id \notin Keys(map)
    THEN [ pc |-> "idle", result |-> "CoordinatorUnknown",
           retries |-> n, backoff |-> st.backoff, sent |-> asked,
           sleeps |-> st.sleeps,
           coordinator |-> st.coordinator ]
    ELSE [ pc |-> "idle", result |-> "returned",
           retries |-> n, backoff |-> st.backoff, sent |-> asked,
           sleeps |-> st.sleeps,
           coordinator |-> map[id] ]

\* a pass of the loop that selects its target again, from the map as it is
LoopPassRepick(st, target, answer, map) ==
  LET n == st.retries + 1
      again == IF Keys(map) = {}
                 THEN target
                 ELSE map[CHOOSE k \in Keys(map) : \A j \in Keys(map) : j <= k]
      asked == Append(st.sent, again.id)
  IN  IF ~answer.ok
        THEN OnFailure(st, n, asked)
        ELSE OnSuccess(st, n, asked, again, answer.coordinator_id, map)

\* One pass of the while loop, lines 139-156: the request goes to target,
\* answer is its outcome.
LoopPass(st, target, answer, map) ==
  LET n == st.retries + 1
      asked == Append(st.sent, target.id)
  IN  IF ~answer.ok
        THEN OnFailure(st, n, asked)
        ELSE OnSuccess(st, n, asked, target, answer.coordinator_id, map)

\* line 136, first half: random.choice(self.brokers.keys())
GomChoose ==
  /\ gpc = "idle"
  /\ cstate = "ready"
  /\ gcalls < MaxGomCalls
  /\ gcalls' = gcalls + 1
  /\ sent' = << >>
  /\ sleeps' = << >>
  /\ coordinator' = NoTarget
  /\ res' = QueryFailed
  /\ IF Keys(brokers) = {}
       THEN /\ gpc' = "idle"
            /\ gresult' = "IndexError"
            /\ gkey' = 0
       ELSE /\ gpc' = "picked"
            /\ gresult' = "running"
            /\ gkey' \in Keys(brokers)
  /\ UNCHANGED << broker, backoff, retries >>
  /\ UNCHANGED uvars
  /\ UNCHANGED rvars

\* line 136, second half, and lines 137-138: broker = self.brokers[key]
GomIndex ==
  /\ gpc = "picked"
  /\ IF gkey \in Keys(brokers)
       THEN /\ broker' = brokers[gkey]
            /\ backoff' = InitialBackoff
            /\ retries' = 0
            /\ gpc' = "loop"
            /\ gresult' = gresult
       ELSE /\ gpc' = "idle"
            /\ gresult' = "KeyError"
            /\ UNCHANGED << broker, backoff, retries >>
  /\ UNCHANGED << gkey, gcalls, coordinator, res, sent, sleeps >>
  /\ UNCHANGED uvars
  /\ UNCHANGED rvars

\* a pass of the loop that drops the broker it asked from the map when the
\* query fails
GomQueryEvicting ==
  /\ gpc = "loop"
  /\ \E answer \in QueryAnswers :
       LET r == LoopPass([ retries |-> retries, backoff |-> backoff,
                           sent |-> sent, sleeps |-> sleeps,
                           coordinator |-> coordinator ],
                         broker, answer, brokers)
       IN  /\ gpc' = r.pc
           /\ gresult' = r.result
           /\ retries' = r.retries
           /\ backoff' = r.backoff
           /\ sent' = r.sent
           /\ sleeps' = r.sleeps
           /\ coordinator' = r.coordinator
           /\ res' = answer
           /\ brokers' = IF answer.ok THEN brokers
                         ELSE PopAll(brokers, {broker.id} \cap Keys(brokers))
  /\ UNCHANGED << gkey, broker, gcalls >>
  /\ UNCHANGED << cstate, seed_hosts, exclude_internal_topics, topics, upc,
                  metadata, calls, uresult, repeat, mdRequests, mdTarget, log,
                  topicUpdates >>
  /\ UNCHANGED rvars

\* lines 139-156: one pass of the loop, its sleep included
GomQuery ==
  /\ gpc = "loop"
  /\ \E answer \in QueryAnswers :
       LET r == LoopPass([ retries |-> retries, backoff |-> backoff,
                           sent |-> sent, sleeps |-> sleeps,
                           coordinator |-> coordinator ],
                         broker, answer, brokers)
       IN  /\ gpc' = r.pc
           /\ gresult' = r.result
           /\ retries' = r.retries
           /\ backoff' = r.backoff
           /\ sent' = r.sent
           /\ sleeps' = r.sleeps
           /\ coordinator' = r.coordinator
           /\ res' = answer
  /\ UNCHANGED << gkey, broker, gcalls >>
  /\ UNCHANGED uvars
  /\ UNCHANGED rvars

\* ------------------------------------------------------------------ readers
\* a reader that has not looked yet
NoView == [ brokers |-> EmptyMap, topics |-> EmptyMap, during |-> "none",
            calls |-> 0 ]

\* lines 33-39: cluster.brokers and cluster.topics return self._brokers and
\* self._topics themselves, so a caller that holds a Cluster finds in them
\* whatever the maps hold at the moment it looks, an update() in progress or not
Read ==
  /\ cstate = "ready"
  /\ reads < MaxReads
  /\ reads' = reads + 1
  /\ seen' = [ brokers |-> brokers, topics |-> topics, during |-> upc,
               calls |-> calls ]
  /\ UNCHANGED uvars
  /\ UNCHANGED gvars

\* ----------------------------------------------------------- specifications
\* __init__, lines 23-30: the fields are set, update() is about to be called
Init ==
  /\ cstate = "constructing"
  /\ seed_hosts \in SeedLists
  /\ exclude_internal_topics \in BOOLEAN
  /\ brokers = EmptyMap
  /\ topics = EmptyMap
  /\ upc = "idle"
  /\ metadata = NoMetadata
  /\ calls = 0
  /\ uresult = "none"
  /\ repeat = FALSE
  /\ mdRequests = 0
  /\ mdTarget = NoTarget
  /\ log = EmptyLog
  /\ topicUpdates = [ n \in TopicNames |-> 0 ]
  /\ gpc = "idle"
  /\ gkey = 0
  /\ broker = NoTarget
  /\ backoff = InitialBackoff
  /\ retries = 0
  /\ gcalls = 0
  /\ gresult = "none"
  /\ coordinator = NoTarget
  /\ res = QueryFailed
  /\ sent = << >>
  /\ sleeps = << >>
  /\ reads = 0
  /\ seen = NoView

\* one caller: construction, then update() again and again
Next ==
  \/ GetMetadata(MetadataResponses)
  \/ UpdateBrokers
  \/ UpdateTopics

Spec == Init /\ [][Next]_vars

\* two callers: update() as above on a small set of snapshots, and beside it
\* get_offset_manager()
GomInit ==
  /\ Init
  /\ exclude_internal_topics
  /\ Len(Split(seed_hosts, ",")) = 2

GomNext ==
  \/ GetMetadata(GomResponses)
  \/ UpdateBrokers
  \/ UpdateTopics
  \/ GomChoose
  \/ GomIndex
  \/ GomQuery

GomSpec == GomInit /\ [][GomNext]_vars

\* two callers: update() as in Spec, and beside it a reader of the two maps
ReadInit ==
  /\ Init
  /\ exclude_internal_topics
  /\ Len(Split(seed_hosts, ",")) = 2

ReadNext ==
  \/ GetMetadata(ReadResponses)
  \/ UpdateBrokers
  \/ UpdateTopics
  \/ Read

ReadSpec == ReadInit /\ [][ReadNext]_vars

\* ------------------------------------------------------------------ claims

\* C1: after every update() call that returns, the keys of the broker map are
\* exactly the broker ids of the snapshot the call fetched.
C1_ExactBrokerReconciliation ==
  (upc = "idle" /\ uresult = "ok") => Keys(brokers) = Keys(metadata.brokers)

\* an update() returned after evicting one broker and inserting another
C1_Witness ==
  /\ upc = "idle" /\ uresult = "ok"
  /\ log.removedBrokers # {}
  /\ log.discoveredBrokers # {}
  /\ Keys(brokers) = Keys(metadata.brokers)

\* C2: an update() call that fetches the snapshot the previous, successful
\* call fetched changes neither map, logs no eviction and no discovery (so
\* it builds no handle), and does not raise.
C2_Idempotence ==
  [][ repeat' => /\ brokers' = brokers
                 /\ topics' = topics
                 /\ log' = EmptyLog
                 /\ uresult' \in {"running", "ok"} ]_vars

\* such a call returned, with brokers and topics in the maps and a handle
\* that received update(meta)
C2_Witness ==
  /\ repeat /\ upc = "idle" /\ uresult = "ok"
  /\ Keys(brokers) = BrokerIds
  /\ \E n \in Keys(topics) : topicUpdates[n] = 1

\* C3: with exclude_internal_topics set, no key of the topic map ever starts
\* with "__".
C3_ExclusionPolicy ==
  exclude_internal_topics =>
    \A n \in Keys(topics) : ~(Len(n) >= 2 /\ n[1] = "_" /\ n[2] = "_")

\* an update() returned whose snapshot held a reserved name and another name
C3_Witness ==
  /\ exclude_internal_topics
  /\ upc = "idle" /\ uresult = "ok"
  /\ << "_", "_", "c" >> \in Keys(metadata.topics)
  /\ << "_", "o" >> \in Keys(topics)

\* C4: when _update_brokers runs on a snapshot that reports a mapped id at
\* another host or port, update() raises and the map keeps, under each such
\* id, the handle it held.
C4_AddressChangeRejected ==
  [][ LET changed == { i \in Keys(brokers) \cap Keys(metadata.brokers) :
                         \/ metadata.brokers[i].host # brokers[i].host
                         \/ metadata.brokers[i].port # brokers[i].port }
      IN  (upc = "brokers" /\ upc' # "brokers" /\ changed # {}) =>
            /\ upc' = "idle"
            /\ uresult' = "TopologyChangeRejected"
            /\ \A i \in changed :
                 /\ i \in Keys(brokers')
                 /\ brokers'[i] = brokers[i]
                 /\ i \notin log'.discoveredBrokers ]_vars

\* update() raised on a change of port alone
C4_Witness ==
  /\ upc = "idle" /\ uresult = "TopologyChangeRejected"
  /\ \E i \in Keys(brokers) \cap Keys(metadata.brokers) :
       /\ metadata.brokers[i].host = brokers[i].host
       /\ metadata.brokers[i].port # brokers[i].port

\* C5: when a coordinator query is answered with an id that is a key of the
\* broker map at that moment, the call returns the handle the map holds
\* under that id, whose identity is that id.
C5_CoordinatorCorrectness ==
  [][ (/\ gpc = "loop" /\ retries' # retries
       /\ res'.ok /\ res'.coordinator_id \in Keys(brokers)) =>
        /\ gpc' = "idle"
        /\ gresult' = "returned"
        /\ coordinator' = brokers[res'.coordinator_id]
        /\ coordinator'.id = res'.coordinator_id ]_vars

\* a call returned a handle other than the broker it queried
C5_Witness ==
  /\ gpc = "idle" /\ gresult = "returned"
  /\ res.ok /\ coordinator.id = res.coordinator_id
  /\ broker.id # coordinator.id

\* C6: one call sends at most 3 coordinator queries; after three failures it
\* raises instead of trying again, and an answered query ends the loop.
C6_BoundedRetry ==
  /\ Len(sent) <= 3
  /\ gpc = "loop" => (Len(sent) < 3 /\ ~res.ok)
  /\ (Len(sent) = 3 /\ ~res.ok) =>
       (gpc = "idle" /\ gresult = "CoordinatorDiscoveryFailed")
  /\ gresult = "CoordinatorDiscoveryFailed" => (Len(sent) = 3 /\ ~res.ok)
  /\ res.ok => (gpc = "idle" /\ gresult \in {"returned", "CoordinatorUnknown"})

\* a call gave up after its third failed query
C6_Witness ==
  /\ gpc = "idle" /\ gresult = "CoordinatorDiscoveryFailed"
  /\ Len(sent) = 3 /\ ~res.ok

\* C7: when a coordinator query is answered with an id that is no key of the
\* broker map, the call ends at once with CoordinatorUnknown: that pass sends
\* its one query, does not sleep, and leaves update()'s state (the maps, the
\* count of update() calls and of metadata requests) alone.
C7_UnknownCoordinatorRaises ==
  [][ (/\ gpc = "loop" /\ retries' # retries
       /\ res'.ok /\ res'.coordinator_id \notin Keys(brokers)) =>
        /\ gpc' = "idle"
        /\ gresult' = "CoordinatorUnknown"
        /\ Len(sent') = Len(sent) + 1
        /\ sleeps' = sleeps
        /\ UNCHANGED uvars ]_vars

\* a call raised CoordinatorUnknown on its first query
C7_Witness ==
  /\ gpc = "idle" /\ gresult = "CoordinatorUnknown"
  /\ res.ok /\ res.coordinator_id = 99
  /\ Keys(brokers) # {}
  /\ Len(sent) = 1

\* C8: construction starts from empty maps and runs update() once; when that
\* call returns, the maps hold the snapshot's brokers and its topics that are
\* not excluded, all newly built; when it raises there is no Cluster, and no
\* further call is made on it.
C8_Construction ==
  /\ (cstate = "constructing" /\ upc = "idle") =>
       (calls = 0 /\ brokers = EmptyMap /\ topics = EmptyMap)
  /\ cstate = "constructing" => calls <= 1
  /\ (cstate = "ready" /\ calls = 1) =>
       /\ uresult = "ok" /\ upc = "idle"
       /\ Keys(brokers) = Keys(metadata.brokers)
       /\ \A i \in Keys(brokers) :
            /\ brokers[i].host = metadata.brokers[i].host
            /\ brokers[i].port = metadata.brokers[i].port
       /\ log.discoveredBrokers = Keys(brokers)
       /\ Keys(topics) =
            { n \in Keys(metadata.topics) :
                ~(exclude_internal_topics /\ Len(n) >= 2 /\ n[1] = "_" /\ n[2] = "_") }
       /\ log.discoveredTopics = Keys(topics)
  /\ cstate = "failed" =>
       (calls = 1 /\ upc = "idle" /\ gcalls = 0
        /\ uresult \in {"ClusterUnreachable", "ValueError"})

\* a Cluster was constructed from a snapshot with brokers and topics
C8_Witness ==
  /\ cstate = "ready" /\ calls = 1
  /\ Keys(brokers) = BrokerIds
  /\ Keys(topics) # {}
  /\ Keys(topics) # Keys(metadata.topics)

\* C9: an update() call sends at most one metadata request; when that request
\* fails the call raises at once and both maps are as they were.
C9_FetchFailsFast ==
  [][ (calls' = calls + 1) =>
        /\ mdRequests' <= 1
        /\ upc' = "idle" =>
             /\ brokers' = brokers
             /\ topics' = topics
             /\ uresult' \in {"ClusterUnreachable", "ValueError"} ]_vars

\* an update() raised after its one request failed although the map held
\* another broker to ask
C9_Witness ==
  /\ upc = "idle" /\ uresult = "ClusterUnreachable"
  /\ mdRequests = 1
  /\ Keys(brokers) = BrokerIds
  /\ mdTarget.id \in BrokerIds

\* C10: a call sleeps once after each failed query that another query
\* follows, and not after its last: k-1 sleeps when query k is answered, two
\* sleeps when the third query fails.
C10_SleepCount ==
  /\ gpc = "loop" => Len(sleeps) = Len(sent)
  /\ res.ok => Len(sleeps) = Len(sent) - 1
  /\ gresult = "CoordinatorDiscoveryFailed" =>
       (Len(sent) = 3 /\ Len(sleeps) = 2)

\* the third query was answered with broker 2 after two sleeps
C10_Witness ==
  /\ gpc = "idle" /\ gresult = "returned"
  /\ Len(sent) = 3 /\ Len(sleeps) = 2
  /\ coordinator.id = 2
\* C11: the first sleep of a call lasts 2 seconds and every later sleep lasts
\* the previous duration raised to its own power.
C11_BackoffProgression ==
  \A i \in 1..Len(sleeps) :
    /\ i = 1 => sleeps[i] = 2
    /\ i > 1 => sleeps[i] = Pow(sleeps[i - 1], sleeps[i - 1])

\* a call slept as often as it can: twice
C11_Witness ==
  /\ gpc = "idle" /\ gresult = "CoordinatorDiscoveryFailed"
  /\ sleeps = << 2, 4 >>
\* C12, as stated: every retry of a call goes to a broker picked from the
\* broker map as it is at that moment.
C12_RetryPicksFromCurrentMap ==
  [][ (gpc = "loop" /\ retries >= 1 /\ retries' = retries + 1) =>
        sent'[Len(sent')] \in Keys(brokers) ]_vars

\* C12, amended: the target is picked once, before the loop; every query of
\* the call goes to that one broker.
C12_OneTargetPerCall ==
  /\ \A i \in 1..Len(sent) : sent[i] = gkey
  /\ gpc = "loop" => broker.id = gkey

\* three queries went to one broker while the map held another
C12_Witness ==
  /\ gpc = "idle" /\ Len(sent) = 3
  /\ sent[1] = sent[2] /\ sent[2] = sent[3]
  /\ Keys(brokers) = BrokerIds
\* C13: the metadata request of an update() call goes to a handle of the
\* broker map when the map is not empty as the call begins, and otherwise to
\* a temporary handle with id -1 built from an entry of the seed list.
C13_MetadataTarget ==
  [][ (calls' = calls + 1 /\ mdRequests' = 1) =>
        IF Keys(brokers) # {}
          THEN /\ mdTarget'.id \in Keys(brokers)
               /\ mdTarget' = brokers[mdTarget'.id]
          ELSE /\ mdTarget'.id = -1
               /\ \E k \in 1..Len(Split(seed_hosts, ",")) :
                    Split(seed_hosts, ",")[k] =
                      mdTarget'.host \o << ":" >> \o mdTarget'.port ]_vars

\* an update() after construction had to go back to the seed list
C13_Witness ==
  /\ calls >= 2 /\ upc = "brokers"
  /\ mdRequests = 1 /\ mdTarget.id = -1
  /\ Keys(brokers) = {}
\* C14: no step of update() before _update_topics changes the topic map, and
\* when _update_brokers raises, the call has removed no topic, built no topic
\* handle and passed update(meta) to none.
C14_BrokersBeforeTopics ==
  [][ /\ upc # "topics" => topics' = topics
      /\ uresult' = "TopologyChangeRejected" =>
           /\ log'.removedTopics = {}
           /\ log'.discoveredTopics = {}
           /\ \A n \in TopicNames : topicUpdates'[n] = 0 ]_vars

\* update() raised in _update_brokers and left topics the snapshot lacks
C14_Witness ==
  /\ upc = "idle" /\ uresult = "TopologyChangeRejected"
  /\ Keys(topics) # {}
  /\ Keys(metadata.topics) = {}
\* C15: when update() returns, the keys of the topic map are the snapshot's
\* names that are not excluded; a name the map already held keeps its handle,
\* which received update(meta) once, and a name new to the map has a newly
\* built handle, which received none.
C15_TopicReconciliation ==
  [][ (upc = "topics" /\ upc' = "idle" /\ uresult' = "ok") =>
        /\ Keys(topics') =
             { n \in Keys(metadata.topics) :
                 ~(exclude_internal_topics
                   /\ Len(n) >= 2 /\ n[1] = "_" /\ n[2] = "_") }
        /\ \A n \in Keys(topics') :
             IF n \in Keys(topics)
               THEN /\ topics'[n] = topics[n]
                    /\ n \notin log'.discoveredTopics
                    /\ topicUpdates'[n] = 1
               ELSE /\ n \in log'.discoveredTopics
                    /\ topicUpdates'[n] = 0 ]_vars

\* one update() kept a topic, which received update(meta), and discovered
\* a topic with the reserved prefix, exclusion being off
C15_Witness ==
  /\ ~exclude_internal_topics
  /\ upc = "idle" /\ uresult = "ok"
  /\ Keys(topics) = TopicNames
  /\ topicUpdates[<< "_", "o" >>] = 1
  /\ log.discoveredTopics = { << "_", "_", "c" >> }
\* C16: when _update_brokers raises, every id the map held and the snapshot
\* lacks is gone from the map, every id both hold is still there, and the
\* ids added are among those new in the snapshot (which of them depends on
\* the order of the iteration).
C16_NoRollback ==
  [][ (upc = "brokers" /\ uresult' = "TopologyChangeRejected") =>
        LET gone == Keys(brokers) \ Keys(metadata.brokers)
            new == Keys(metadata.brokers) \ Keys(brokers)
        IN  /\ Keys(brokers') \cap gone = {}
            /\ log'.removedBrokers = gone
            /\ (Keys(brokers) \cap Keys(metadata.brokers)) \subseteq Keys(brokers')
            /\ Keys(brokers') \ Keys(brokers) \subseteq new
            /\ log'.discoveredBrokers = Keys(brokers') \ Keys(brokers) ]_vars

\* update() raised after it had evicted a broker
C16_Witness ==
  /\ upc = "idle" /\ uresult = "TopologyChangeRejected"
  /\ log.removedBrokers # {}
  /\ Keys(brokers) \cap log.removedBrokers = {}
\* C17: a reader that looks at the two maps while update() stands between
\* its two reconciliations finds the broker map already reconciled to the
\* snapshot just fetched (its keys and its addresses) and the topic map as
\* the previous calls left it, untouched by this call.
C17_MidUpdateView ==
  [][ (reads' = reads + 1 /\ upc = "topics") =>
        /\ seen'.during = "topics"
        /\ seen'.brokers = brokers
        /\ seen'.topics = topics
        /\ Keys(seen'.brokers) = Keys(metadata.brokers)
        /\ \A i \in Keys(seen'.brokers) :
             /\ seen'.brokers[i].host = metadata.brokers[i].host
             /\ seen'.brokers[i].port = metadata.brokers[i].port
        /\ log.removedTopics = {}
        /\ log.discoveredTopics = {}
        /\ \A n \in TopicNames : topicUpdates[n] = 0 ]_vars

\* the reader looked in the middle of an update() that had just inserted a
\* broker and was about to insert a topic: it found the new broker and no topic
C17_Witness ==
  /\ reads = 1
  /\ seen.during = "topics"
  /\ seen.calls = calls
  /\ log.discoveredBrokers # {}
  /\ Keys(seen.brokers) = Keys(metadata.brokers)
  /\ log.discoveredBrokers \subseteq Keys(seen.brokers)
  /\ Keys(seen.topics) = {}
  /\ Keys(metadata.topics) = { << "_", "o" >> }
\* C18: no step of get_offset_manager (the choice of the target, the lookup
\* of its handle, a pass of the loop, whatever it ends in) changes the
\* broker map or the topic map.
C18_GomLeavesMaps ==
  [][ gvars' # gvars => (brokers' = brokers /\ topics' = topics) ]_vars

\* a call gave up after its three queries, beside a cluster of two brokers
\* and one topic which are all still mapped
C18_Witness ==
  /\ gpc = "idle" /\ gresult = "CoordinatorDiscoveryFailed"
  /\ retries = MAX_RETRIES
  /\ Keys(brokers) = BrokerIds
  /\ Keys(topics) = { << "_", "o" >> }
\* C19: a get_offset_manager call that has failed ended in
\* CoordinatorDiscoveryFailed or in CoordinatorUnknown, and it had sent at
\* least one coordinator query.
C19_TwoFailureModes ==
  (gpc = "idle" /\ gresult \notin {"none", "running", "returned"}) =>
    /\ gresult \in {"CoordinatorDiscoveryFailed", "CoordinatorUnknown"}
    /\ Len(sent) >= 1
\* C20: no step changes the host or the port the broker map holds under an
\* id that stays mapped; an update() that reaches _update_brokers with a
\* mapped id reported at another address raises; and when the map holds an
\* id at another address than a reader found it at, at least two
\* _update_brokers runs lie between (one that evicted the id, a later one
\* that inserted it again).
C20_AddressStableWhileMapped ==
  [][ LET changed == { i \in Keys(brokers) \cap Keys(metadata.brokers) :
                         \/ metadata.brokers[i].host # brokers[i].host
                         \/ metadata.brokers[i].port # brokers[i].port }
          now == IF upc' = "brokers" THEN calls' - 1 ELSE calls'
          then == IF seen'.during = "brokers" THEN seen'.calls - 1
                                             ELSE seen'.calls
      IN  /\ \A i \in Keys(brokers) \cap Keys(brokers') :
               /\ brokers'[i].host = brokers[i].host
               /\ brokers'[i].port = brokers[i].port
          /\ (upc = "brokers" /\ upc' # "brokers" /\ changed # {}) =>
               uresult' = "TopologyChangeRejected"
          /\ \A i \in Keys(seen'.brokers) \cap Keys(brokers') :
               (\/ brokers'[i].host # seen'.brokers[i].host
                \/ brokers'[i].port # seen'.brokers[i].port) =>
                 now >= then + 2 ]_vars

\* the map holds broker 1 at another host than the reader found it at: it
\* was evicted and inserted again since
C20_Witness ==
  /\ reads = 1
  /\ 1 \in Keys(seen.brokers) \cap Keys(brokers)
  /\ seen.brokers[1].host # brokers[1].host
  /\ upc = "idle" /\ uresult = "ok"
====
